---- MODULE Spec2Model ----
(***************************************************************************)
(* Meta webhook relay: identifier extraction, mapping resolution, header   *)
(* sanitization, the forwarder with its timeout, and the per-request relay *)
(* handler, modelled from src/src/lib/extractId.js and src/unnamed/part_001*)
(***************************************************************************)
EXTENDS Integers, Sequences, FiniteSets, TLC

(***************************************************************************)
(* JavaScript values.  Every value carries its type tag, so that           *)
(* truthiness, String() and property lookup behave as in the runtime.      *)
(***************************************************************************)
Undefined == [t |-> "undefined"]
JNull == [t |-> "null"]
JStr(s) == [t |-> "string", s |-> s]
JNum(n) == [t |-> "number", n |-> n]
JBool(b) == [t |-> "boolean", b |-> b]
JArr(a) == [t |-> "array", a |-> a]
JObj(o) == [t |-> "object", o |-> o]
JFun(f) == [t |-> "function", f |-> f]

\* An empty object literal {}.
EmptyObj == JObj(<<>>)

\* Names every object inherits from Object.prototype (function valued).
ObjectPrototypeKeys ==
  {"constructor", "toString", "valueOf", "hasOwnProperty",
   "isPrototypeOf", "propertyIsEnumerable", "toLocaleString"}

\* ToBoolean: what `if (v)`, `a && b` and `a || b` test.
Truthy(v) ==
  CASE v.t = "undefined" -> FALSE
    [] v.t = "null" -> FALSE
    [] v.t = "string" -> v.s # ""
    [] v.t = "number" -> v.n # 0
    [] v.t = "boolean" -> v.b
    [] OTHER -> TRUE

\* a || b
JsOr(a, b) == IF Truthy(a) THEN a ELSE b

\* String(v)
JsString(v) ==
  CASE v.t = "undefined" -> "undefined"
    [] v.t = "null" -> "null"
    [] v.t = "string" -> v.s
    [] v.t = "number" -> ToString(v.n)
    [] v.t = "boolean" -> (IF v.b THEN "true" ELSE "false")
    [] v.t = "array" -> "<array>"
    [] v.t = "object" -> "[object Object]"
    [] OTHER -> "function " \o v.f \o "() { [native code] }"

\* Own enumerable keys of an object (objects are functions from keys).
OwnKeys(v) == IF v.t = "object" THEN DOMAIN v.o ELSE {}

\* v[k] for a value that is neither null nor undefined: own property first,
\* then the prototype chain.
Get(v, k) ==
  IF k \in OwnKeys(v) THEN v.o[k]
  ELSE IF k \in ObjectPrototypeKeys THEN JFun("Object")
  ELSE Undefined

\* Completion records: a function either returns a value or throws.
Return(v) == [threw |-> FALSE, v |-> v]
Throw(e) == [threw |-> TRUE, e |-> e]

(***************************************************************************)
(* Identifier Extractor                                                    *)
(***************************************************************************)
\* body?.entry
OptionalEntry(body) ==
  IF body.t \in {"undefined", "null"} THEN Undefined ELSE Get(body, "entry")

extractId(body) ==
  LET entry == OptionalEntry(body) IN
  IF Truthy(entry) /\ entry.t = "array" /\ Len(entry.a) > 0
  THEN LET firstEntry == entry.a[1] IN
       IF firstEntry.t \in {"undefined", "null"}
       THEN Throw("TypeError")
       ELSE LET id == Get(firstEntry, "id") IN
            IF Truthy(id) THEN Return(JStr(JsString(id))) ELSE Return(JNull)
  ELSE Return(JNull)

(***************************************************************************)
(* Header Sanitizer                                                        *)
(* A header set on the wire is a sequence of <<name, value>> entries.  A   *)
(* JavaScript object is a sequence of <<key, value>> entries with unique   *)
(* keys, in insertion order.                                               *)
(***************************************************************************)
HOP_BY_HOP_HEADERS ==
  {"transfer-encoding", "connection", "keep-alive", "proxy-authenticate",
   "proxy-authorization", "te", "trailers", "upgrade", "content-length",
   "host"}

\* key.toLowerCase(), on the header names the model uses.
toLowerCase(key) ==
  CASE key = "Connection" -> "connection"
    [] key = "CONNECTION" -> "connection"
    [] key = "Content-Length" -> "content-length"
    [] key = "Content-Type" -> "content-type"
    [] key = "Host" -> "host"
    [] key = "Set-Cookie" -> "set-cookie"
    [] key = "X-Custom" -> "x-custom"
    [] key = "X-Relay-Key" -> "x-relay-key"
    [] OTHER -> key

\* Lower-case header names in the order Headers.entries() sorts them.
SortedHeaderNames ==
  <<"accept", "connection", "content-length", "content-type", "host",
    "set-cookie", "x-custom", "x-relay-key">>

\* obj[key] = value: overwrite in place, or append a new key.
ObjSet(obj, key, value) ==
  IF \E i \in DOMAIN obj : obj[i][1] = key
  THEN [i \in DOMAIN obj |-> IF obj[i][1] = key THEN <<key, value>> ELSE obj[i]]
  ELSE Append(obj, <<key, value>>)

\* obj[key], Undefined-free form: has the key / its value.
ObjHas(obj, key) == \E i \in DOMAIN obj : obj[i][1] = key
ObjGet(obj, key) == obj[CHOOSE i \in DOMAIN obj : obj[i][1] = key][2]

\* The values of every wire entry named `lower` (case-insensitively), in order.
RECURSIVE ValuesOf(_, _)
ValuesOf(wire, lower) ==
  IF wire = <<>> THEN <<>>
  ELSE IF toLowerCase(Head(wire)[1]) = lower
       THEN <<Head(wire)[2]>> \o ValuesOf(Tail(wire), lower)
       ELSE ValuesOf(Tail(wire), lower)

\* values.join(", ")
RECURSIVE JoinComma(_)
JoinComma(values) ==
  IF Len(values) = 1 THEN values[1]
  ELSE values[1] \o ", " \o JoinComma(Tail(values))

\* Headers the runtime keeps once only: a repeated one is dropped.
SingletonHeaders == {"content-type", "content-length", "host"}

\* req.headers as node:http builds it: names lower-cased, a repeated header
\* joined with ", " (or its first value kept, for the singleton headers).
RECURSIVE NodeIncomingHeaders(_, _)
NodeIncomingHeaders(wire, obj) ==
  IF wire = <<>> THEN obj
  ELSE LET lower == toLowerCase(Head(wire)[1])
           value == Head(wire)[2] IN
       NodeIncomingHeaders(Tail(wire),
         IF ~ObjHas(obj, lower) THEN ObjSet(obj, lower, value)
         ELSE IF lower \in SingletonHeaders THEN obj
         ELSE ObjSet(obj, lower, ObjGet(obj, lower) \o ", " \o value))

\* response.headers.entries(): names lower-cased and sorted, the values of a
\* repeated header combined with ", ", except set-cookie whose values stay
\* separate entries.
RECURSIVE FetchHeadersEntries(_, _)
FetchHeadersEntries(wire, i) ==
  IF i > Len(SortedHeaderNames) THEN <<>>
  ELSE LET lower == SortedHeaderNames[i]
           values == ValuesOf(wire, lower) IN
       (IF values = <<>> THEN <<>>
        ELSE IF lower = "set-cookie"
             THEN [j \in DOMAIN values |-> <<lower, values[j]>>]
             ELSE << <<lower, JoinComma(values)>> >>)
       \o FetchHeadersEntries(wire, i + 1)

\* if (!HOP_BY_HOP_HEADERS.includes(lowerKey)) target[key] = value
KeepUnlessHopByHop(target, entry) ==
  IF toLowerCase(entry[1]) \notin HOP_BY_HOP_HEADERS
  THEN ObjSet(target, entry[1], entry[2])
  ELSE target

RECURSIVE FilterInto(_, _)
FilterInto(entries, target) ==
  IF entries = <<>> THEN target
  ELSE FilterInto(Tail(entries), KeepUnlessHopByHop(target, Head(entries)))

\* filterHeaders(response.headers)
filterHeaders(entries) == FilterInto(entries, <<>>)

\* sanitizeIncomingHeaders(req.headers)
sanitizeIncomingHeaders(incomingHeaders) == FilterInto(incomingHeaders, <<>>)

(***************************************************************************)
(* Query string: the wire form is a sequence of <<key, value>> pairs;      *)
(* req.query is the object the query parser builds from it.                *)
(***************************************************************************)
\* req.query: one key per parameter name, in order of first appearance; a
\* single value stays a string, a repeated parameter becomes an array.
RECURSIVE QueryObject(_, _)
QueryObject(pairs, obj) ==
  IF pairs = <<>> THEN obj
  ELSE LET key == Head(pairs)[1]
           value == JStr(Head(pairs)[2]) IN
       QueryObject(Tail(pairs),
         IF ~ObjHas(obj, key) THEN ObjSet(obj, key, value)
         ELSE LET old == ObjGet(obj, key) IN
              IF old.t = "array"
              THEN ObjSet(obj, key, JArr(Append(old.a, value)))
              ELSE ObjSet(obj, key, JArr(<<old, value>>)))

\* req.query?.name
QueryGet(query, name) ==
  IF ObjHas(query, name) THEN ObjGet(query, name) ELSE Undefined

(***************************************************************************)
(* Mapping Resolver                                                        *)
(***************************************************************************)
\* typeof v === 'object'
TypeofObject(v) == v.t \in {"object", "array", "null"}

\* The strings of an array of string values.
Strings(a) == [i \in DOMAIN a |-> JsString(a[i])]

\* resolveDownstream, the candidate list: the body identifier, then the
\* query identifier(s).
\* if (extractedId) candidates.push(extractedId)
PushExtracted(extractedId) ==
  IF extractedId.threw THEN extractedId
  ELSE IF Truthy(extractedId.v) THEN Return(<<extractedId.v.s>>)
  ELSE Return(<<>>)

BodyCandidates(parsedBody) ==
  IF Truthy(parsedBody) /\ TypeofObject(parsedBody)
  THEN PushExtracted(extractId(parsedBody))
  ELSE Return(<<>>)

\* req.query?.id || req.query?.page_id || req.query?.ig_id
QueryId(query) ==
  JsOr(JsOr(QueryGet(query, "id"), QueryGet(query, "page_id")),
       QueryGet(query, "ig_id"))

\* if (Array.isArray(queryId)) push(...queryId) else if (queryId) push(queryId)
PushQueryId(queryId) ==
  IF queryId.t = "array" THEN Strings(queryId.a)
  ELSE IF Truthy(queryId) THEN <<JsString(queryId)>>
  ELSE <<>>

QueryCandidates(query) == PushQueryId(QueryId(query))

CandidatesAfter(fromBody, query) ==
  IF fromBody.threw THEN fromBody
  ELSE Return(fromBody.v \o QueryCandidates(query))

Candidates(request) ==
  CandidatesAfter(BodyCandidates(request.parsedBody), request.query)

\* candidate && platformMap[candidate]
Matches(platformMap, candidate) ==
  candidate # "" /\ Truthy(Get(platformMap, candidate))

\* for (const candidate of candidates) ... first match, default, or nothing.
Lookup(platformMap, candidates) ==
  IF \E i \in DOMAIN candidates : Matches(platformMap, candidates[i])
  THEN LET i == CHOOSE j \in DOMAIN candidates :
                  /\ Matches(platformMap, candidates[j])
                  /\ \A k \in 1..(j - 1) : ~Matches(platformMap, candidates[k])
       IN [key |-> JStr(candidates[i]), url |-> Get(platformMap, candidates[i])]
  ELSE IF Truthy(Get(platformMap, "default"))
  THEN [key |-> JStr("default"), url |-> Get(platformMap, "default")]
  ELSE [key |-> JsOr(IF candidates = <<>> THEN Undefined ELSE JStr(candidates[1]),
                     JNull),
        url |-> JNull]

LookupCompleted(platformMap, candidates) ==
  IF candidates.threw THEN candidates
  ELSE Return(Lookup(platformMap, candidates.v))

ResolveIn(platformMap, request) ==
  IF ~Truthy(platformMap) \/ ~TypeofObject(platformMap)
  THEN Return([key |-> JNull, url |-> JNull])
  ELSE LookupCompleted(platformMap, Candidates(request))

resolveDownstream(table, request, platform) ==
  ResolveIn(Get(table, platform), request)

(***************************************************************************)
(* Raw body middleware                                                     *)
(* Body bytes are strings; JSON texts are parsed by table.                 *)
(***************************************************************************)
BodyId123 == "{\"entry\":[{\"id\":\"123\"}]}"
BodyId456Spaced == "{ \"entry\": [ { \"id\": \"456\" } ] }"
BodyIdZero == "{\"entry\":[{\"id\":0}]}"
BodyEntryNull == "{\"entry\":[null]}"
BodyTruncated == "{\"entry\":[{\"id\":"
BodyBinary == "\\x00\\xff"

\* { "entry": [ { "id": id } ] }
EntryBody(id) == JObj("entry" :> JArr(<<JObj("id" :> id)>>))

\* JSON.parse(text)
JSONParse(text) ==
  CASE text = BodyId123 -> Return(EntryBody(JStr("123")))
    [] text = BodyId456Spaced -> Return(EntryBody(JStr("456")))
    [] text = BodyIdZero -> Return(EntryBody(JNum(0)))
    [] text = BodyEntryNull -> Return(JObj("entry" :> JArr(<<JNull>>)))
    [] OTHER -> Throw("SyntaxError")

\* req.body as express.raw leaves it: a Buffer of the bytes received, or
\* the empty object when the request carried no body.
ExpressRaw(bytes) ==
  IF bytes = "" THEN EmptyObj ELSE [t |-> "buffer", bytes |-> bytes]

\* req.rawBody, with the Buffer branch forgotten.
RawBodyStringOnly(reqBody) ==
  IF reqBody.t = "string" THEN reqBody.s ELSE ""

\* req.rawBody
RawBody(reqBody) ==
  IF reqBody.t = "buffer" THEN reqBody.bytes
  ELSE IF reqBody.t = "string" THEN reqBody.s
  ELSE ""

\* contentType.includes('application/json')
IncludesJson(contentType) ==
  contentType \in {"application/json", "application/json; charset=utf-8"}

\* req.parsedBody
ParsedBody(contentType, rawBody) ==
  IF IncludesJson(contentType) /\ rawBody # ""
  THEN LET parsed == JSONParse(rawBody) IN
       IF parsed.threw THEN JNull ELSE parsed.v
  ELSE JNull

\* The request object the handler sees, after the runtime and the middleware.
\* req.headers['content-type'] || ''
ContentType(headers) ==
  IF ObjHas(headers, "content-type") THEN ObjGet(headers, "content-type")
  ELSE ""

Request(w, headers, rawBody) ==
  [platform |-> w.platform,
   method |-> w.method,
   headers |-> headers,
   query |-> QueryObject(w.query, <<>>),
   rawBody |-> rawBody,
   parsedBody |-> ParsedBody(ContentType(headers), rawBody)]

Incoming(w) ==
  Request(w, NodeIncomingHeaders(w.headers, <<>>), RawBody(ExpressRaw(w.body)))

(***************************************************************************)
(* Destination URL                                                         *)
(***************************************************************************)
\* new URL(text): the parsed URL of the texts that are URLs.
URLParse(text) ==
  CASE text = "http://d/x" ->
         [valid |-> TRUE, path |-> "http://d/x", search |-> <<>>]
    [] text = "http://f/y" ->
         [valid |-> TRUE, path |-> "http://f/y", search |-> <<>>]
    [] text = "http://f/y?src=relay" ->
         [valid |-> TRUE, path |-> "http://f/y",
          search |-> << <<"src", "relay">> >>]
    [] OTHER -> [valid |-> FALSE, path |-> "", search |-> <<>>]

\* Parameters set rather than appended: the last value of a repeated
\* parameter replaces the earlier ones.
RECURSIVE QueryPairsSettingLast(_)
QueryPairsSettingLast(query) ==
  IF query = <<>> THEN <<>>
  ELSE LET key == Head(query)[1]
           value == Head(query)[2] IN
       (IF value.t = "array"
        THEN << <<key, JsString(value.a[Len(value.a)])>> >>
        ELSE IF value.t \notin {"undefined", "null"}
             THEN << <<key, JsString(value)>> >>
             ELSE <<>>)
       \o QueryPairsSettingLast(Tail(query))

\* Object.entries(query).forEach(...): one pair per value, arrays unrolled.
RECURSIVE QueryPairs(_)
QueryPairs(query) ==
  IF query = <<>> THEN <<>>
  ELSE LET key == Head(query)[1]
           value == Head(query)[2] IN
       (IF value.t = "array"
        THEN [i \in DOMAIN value.a |-> <<key, JsString(value.a[i])>>]
        ELSE IF value.t \notin {"undefined", "null"}
             THEN << <<key, JsString(value)>> >>
             ELSE <<>>)
       \o QueryPairs(Tail(query))

\* url.searchParams.toString()
RECURSIVE SearchString(_)
SearchString(pairs) ==
  IF Len(pairs) = 1 THEN pairs[1][1] \o "=" \o pairs[1][2]
  ELSE pairs[1][1] \o "=" \o pairs[1][2] \o "&" \o SearchString(Tail(pairs))

\* url.toString()
URLString(path, pairs) ==
  IF pairs = <<>> THEN path ELSE path \o "?" \o SearchString(pairs)

appendQueryParams(baseUrl, query) ==
  LET url == URLParse(JsString(baseUrl)) IN
  IF ~url.valid THEN Throw("TypeError")
  ELSE Return(URLString(url.path, url.search \o QueryPairs(query)))

(***************************************************************************)
(* Forwarder: the outbound call forwardRequest builds before it awaits     *)
(***************************************************************************)
\* FORWARD_TIMEOUT_MS, in milliseconds (the clock of the model ticks in ms).
FORWARD_TIMEOUT_MS == 2

\* The method compared as it was given, without upper-casing.
toUpperCaseSkipped(method) == method

\* method.toUpperCase()
toUpperCase(method) ==
  CASE method \in {"get", "Get"} -> "GET"
    [] method \in {"head", "Head"} -> "HEAD"
    [] method \in {"post", "Post"} -> "POST"
    [] OTHER -> method

shouldIncludeBody(upperMethod) == upperMethod \notin {"GET", "HEAD"}

\* Injection that leaves a x-relay-key header of the caller in place.
OutboundHeadersKeepingCallers(incomingHeaders, relayId) ==
  LET sanitizedHeaders == sanitizeIncomingHeaders(incomingHeaders) IN
  IF Truthy(relayId) /\ ~ObjHas(sanitizedHeaders, "x-relay-key")
  THEN ObjSet(sanitizedHeaders, "x-relay-key", JsString(relayId))
  ELSE sanitizedHeaders

\* sanitizedHeaders, with the x-relay-key header injected
OutboundHeaders(incomingHeaders, relayId) ==
  LET sanitizedHeaders == sanitizeIncomingHeaders(incomingHeaders) IN
  IF Truthy(relayId)
  THEN ObjSet(sanitizedHeaders, "x-relay-key", JsString(relayId))
  ELSE sanitizedHeaders

\* fetchOptions.body: <<bytes>> when a body is attached, <<>> when none is.
\* (rawBody || Buffer.alloc(0): a Buffer is truthy even when empty.)
OutboundBody(upperMethod, rawBody) ==
  IF shouldIncludeBody(upperMethod) THEN <<rawBody>> ELSE <<>>

\* fetch(downstreamUrl, fetchOptions)
OutboundCall(downstreamUrl, method, rawBody, incomingHeaders, relayId) ==
  [url |-> downstreamUrl,
   method |-> toUpperCase(method),
   headers |-> OutboundHeaders(incomingHeaders, relayId),
   body |-> OutboundBody(toUpperCase(method), rawBody)]

\* forwardRequest calling the destination a second time.
IssuedCallsTwice(call) == <<call, call>>

\* The calls one forwardRequest issues: a single fetch.
IssuedCalls(call) == <<call>>

\* Methods fetch refuses to send: it rejects with a TypeError before any
\* request leaves the process.
ForbiddenMethods == {"CONNECT", "TRACE", "TRACK"}
ForbiddenMessage == "HTTP method is unsupported."

\* The error forwardRequest throws from its catch block.
TimeoutMessage == "Request timeout after " \o ToString(FORWARD_TIMEOUT_MS) \o "ms"
NetworkMessage == "fetch failed"

(***************************************************************************)
(* Relay Handler                                                           *)
(***************************************************************************)
JsonHeaders == << <<"Content-Type", "application/json; charset=utf-8">> >>

\* res.status(404).json({ error: `No downstream URL mapped for key: ...` })
NotFoundResponse(mappingKey) ==
  [status |-> 404,
   headers |-> JsonHeaders,
   body |-> "{\"error\":\"No downstream URL mapped for key: "
            \o JsString(JsOr(mappingKey, JStr("unknown"))) \o "\"}"]

\* res.status(502).json({ error: 'Failed to forward webhook ...' })
BadGatewayResponse ==
  [status |-> 502,
   headers |-> JsonHeaders,
   body |-> "{\"error\":\"Failed to forward webhook to downstream server\"}"]

\* Mirroring that reports a destination-side error as a relay failure.
MirroredResponseErrorAs502(downstreamResponse) ==
  [status |-> IF downstreamResponse.status >= 500 THEN 502
              ELSE downstreamResponse.status,
   headers |-> downstreamResponse.headers,
   body |-> downstreamResponse.body]

\* res.status(status); res.setHeader(key, value)...; res.send(body)
MirroredResponse(downstreamResponse) ==
  [status |-> downstreamResponse.status,
   headers |-> downstreamResponse.headers,
   body |-> downstreamResponse.body]

\* What forwardRequest returns once the body has been read.
DownstreamResponse(status, wireHeaders, body) ==
  [status |-> status,
   body |-> body,
   headers |-> filterHeaders(FetchHeadersEntries(wireHeaders, 1))]

NoResolution == [key |-> JNull, url |-> JNull]

\* The catch block of the handler.
Caught(message, resolution) ==
  [goto |-> "done", outcome |-> "BAD_GATEWAY",
   response |-> <<BadGatewayResponse>>, call |-> <<>>,
   resolution |-> resolution, error |-> message]

\* The handler from its start to its first await: resolve, answer 404, or
\* build the target URL and start the outbound call.
\* const targetUrl = appendQueryParams(...); await forwardRequest({...})
Forward(request, resolution, targetUrl) ==
  IF targetUrl.threw THEN Caught(targetUrl.e, resolution)
  ELSE IF toUpperCase(request.method) \in ForbiddenMethods
  THEN Caught(ForbiddenMessage, resolution)
  ELSE [goto |-> "fetching", outcome |-> "none",
        response |-> <<>>,
        call |-> IssuedCalls(OutboundCall(targetUrl.v, request.method,
                             request.rawBody, request.headers,
                             resolution.key)),
        resolution |-> resolution, error |-> ""]

\* if (!downstreamBaseUrl) return res.status(404)...
RespondOrForward(request, resolution) ==
  IF resolution.threw THEN Caught(resolution.e, NoResolution)
  ELSE IF ~Truthy(resolution.v.url)
  THEN [goto |-> "done", outcome |-> "NOT_FOUND",
        response |-> <<NotFoundResponse(resolution.v.key)>>, call |-> <<>>,
        resolution |-> resolution.v, error |-> ""]
  ELSE Forward(request, resolution.v,
               appendQueryParams(resolution.v.url, request.query))

HandlerSync(table, request) ==
  RespondOrForward(request,
                   resolveDownstream(table, request, request.platform))

(***************************************************************************)
(* Bounds and input sets                                                   *)
(***************************************************************************)
\* Request slots of the process.
NumReqs == 2
\* The clock stops once a request has waited this many milliseconds.
MaxWait == 4
\* Longest query string (in parameters) and header list of the pure checks.
MaxQueryLen == 2
MaxHeaders == 2

Reqs == 1..NumReqs

Platforms == {"messenger", "instagram"}
Methods == {"GET", "POST", "TRACE"}

\* A sub-mapping { key: url, ... }
SubMap(f) == JObj([k \in DOMAIN f |-> JStr(f[k])])

\* Mapping tables the operator may have on disk.
TableOne == JObj("messenger" :> SubMap("123" :> "http://d/x"))
TableDefault ==
  JObj("messenger" :> SubMap("123" :> "http://f/y?src=relay"
                             @@ "default" :> "http://d/x"))
TableBadUrl == JObj("messenger" :> SubMap("456" :> "d/x"))
TableEmpty == JObj("messenger" :> EmptyObj @@ "instagram" :> JStr("off"))
Tables == {TableOne, TableDefault, TableBadUrl, TableEmpty}

\* Inbound requests on the wire.
HeadersPlain ==
  << <<"Content-Type", "text/plain">>, <<"Connection", "keep-alive">> >>
HeadersJson ==
  << <<"Content-Type", "application/json">>, <<"X-Custom", "foo">> >>
HeadersSpoof ==
  << <<"Content-Type", "application/json">>, <<"X-Relay-Key", "spoof">> >>
RequestHeaders == {HeadersPlain, HeadersJson, HeadersSpoof}

RequestBodies ==
  {"", BodyId123, BodyId456Spaced, BodyEntryNull, BodyTruncated, BodyBinary}

RequestQueries ==
  { <<>>,
    << <<"id", "123">>, <<"test", "1">> >>,
    << <<"id", "999">>, <<"page_id", "123">> >>,
    << <<"id", "constructor">> >>,
    << <<"ig_id", "456">>, <<"ig_id", "123">> >> }

Requests ==
  [platform : Platforms, method : Methods, headers : RequestHeaders,
   body : RequestBodies, query : RequestQueries]

\* What a destination may answer.
DestStatuses == {200, 500}
DestHeaders ==
  { << <<"Connection", "keep-alive">>, <<"Content-Length", "42">>,
       <<"X-Custom", "foo">> >>,
    << <<"Set-Cookie", "a=1">>, <<"Set-Cookie", "b=2">> >> }
DestBodies == {"{\"ok\":true}", ""}

(***************************************************************************)
(* State                                                                   *)
(***************************************************************************)
VARIABLES
  mapping,    \* the mapping table in memory
  running,    \* the process is alive
  wire,       \* per request: the inbound request as received
  pc,         \* per request: idle, received, fetching, readingBody, done
  resolved,   \* per request: the { key, url } the resolver returned
  calls,      \* per request: the outbound calls issued
  timer,      \* per request: the abort timer is armed
  elapsed,    \* per request: milliseconds since the outbound call started
  dest,       \* per request: what the destination has sent so far, and
              \* whether it has sent all of it
  responses,  \* per request: the responses written to the caller
  outcome,    \* per request: none, NOT_FOUND, BAD_GATEWAY, MIRRORED
  errors,     \* per request: the error message logged
  arg,        \* pure checks: the input
  ret,        \* pure checks: the result
  fn          \* pure checks: the function applied

relay == <<mapping, running, wire, pc, resolved, calls, timer, elapsed, dest,
           responses, outcome, errors>>
pure == <<arg, ret, fn>>
vars == <<relay, pure>>

NoRequest ==
  [platform |-> "", method |-> "", headers |-> <<>>, body |-> "", query |-> <<>>]
NoDest == [status |-> 0, headers |-> <<>>, body |-> "", complete |-> FALSE]

RelayIdle(table) ==
  /\ mapping = table
  /\ running = TRUE
  /\ wire = [r \in Reqs |-> NoRequest]
  /\ pc = [r \in Reqs |-> "idle"]
  /\ resolved = [r \in Reqs |-> NoResolution]
  /\ calls = [r \in Reqs |-> <<>>]
  /\ timer = [r \in Reqs |-> FALSE]
  /\ elapsed = [r \in Reqs |-> 0]
  /\ dest = [r \in Reqs |-> NoDest]
  /\ responses = [r \in Reqs |-> <<>>]
  /\ outcome = [r \in Reqs |-> "none"]
  /\ errors = [r \in Reqs |-> ""]

PureIdle == arg = <<>> /\ ret = <<>> /\ fn = "none"

\* loadMapping() at startup succeeded, the server listens.
Init == (\E table \in Tables : RelayIdle(table)) /\ PureIdle

InFlight(r) == pc[r] \in {"fetching", "readingBody"}

(***************************************************************************)
(* Actions                                                                 *)
(***************************************************************************)
\* A request arrives on a webhook route and its body is read.
Receive(r, inputs) ==
  /\ running /\ pc[r] = "idle"
  /\ \E w \in inputs : wire' = [wire EXCEPT ![r] = w]
  /\ pc' = [pc EXCEPT ![r] = "received"]
  /\ UNCHANGED <<mapping, running, resolved, calls, timer, elapsed, dest,
                 responses, outcome, errors, pure>>

\* The middleware and the handler run up to `await fetch(...)`.
Handled(r, h) ==
  /\ pc' = [pc EXCEPT ![r] = h.goto]
  /\ resolved' = [resolved EXCEPT ![r] = h.resolution]
  /\ calls' = [calls EXCEPT ![r] = @ \o h.call]
  /\ timer' = [timer EXCEPT ![r] = (h.goto = "fetching")]
  /\ responses' = [responses EXCEPT ![r] = @ \o h.response]
  /\ outcome' = [outcome EXCEPT ![r] = h.outcome]
  /\ errors' = [errors EXCEPT ![r] = h.error]

Handle(r) ==
  /\ running /\ pc[r] = "received"
  /\ Handled(r, HandlerSync(mapping, Incoming(wire[r])))
  /\ UNCHANGED <<mapping, running, wire, elapsed, dest, pure>>

\* fetch resolves: the destination's status line and headers have arrived.
\* forwardRequest clears the timer and starts reading the body.
FetchResolves(r, statuses, headerLists) ==
  /\ running /\ pc[r] = "fetching"
  /\ \E status \in statuses, headers \in headerLists :
       dest' = [dest EXCEPT ![r] = [status |-> status, headers |-> headers,
                                    body |-> "", complete |-> FALSE]]
  /\ timer' = [timer EXCEPT ![r] = FALSE]
  /\ pc' = [pc EXCEPT ![r] = "readingBody"]
  /\ UNCHANGED <<mapping, running, wire, resolved, calls, elapsed, responses,
                 outcome, errors, pure>>

\* response.arrayBuffer() resolves: forwardRequest returns and the handler
\* mirrors the response.
BodyResolves(r, bodies) ==
  /\ running /\ pc[r] = "readingBody"
  /\ \E body \in bodies :
       /\ dest' = [dest EXCEPT ![r].body = body, ![r].complete = TRUE]
       /\ responses' = [responses EXCEPT ![r] = Append(@,
            MirroredResponse(DownstreamResponse(dest[r].status,
                                                dest[r].headers, body)))]
  /\ pc' = [pc EXCEPT ![r] = "done"]
  /\ outcome' = [outcome EXCEPT ![r] = "MIRRORED"]
  /\ UNCHANGED <<mapping, running, wire, resolved, calls, timer, elapsed,
                 errors, pure>>

\* A catch block that reports the cause of the failure to the caller.
ForwardFailedEchoingCause(r, message) ==
  /\ timer' = [timer EXCEPT ![r] = FALSE]
  /\ pc' = [pc EXCEPT ![r] = "done"]
  /\ responses' = [responses EXCEPT ![r] = Append(@,
       [status |-> 502, headers |-> JsonHeaders,
        body |-> "{\"error\":\"" \o message \o "\"}"])]
  /\ outcome' = [outcome EXCEPT ![r] = "BAD_GATEWAY"]
  /\ errors' = [errors EXCEPT ![r] = message]
  /\ UNCHANGED <<mapping, running, wire, resolved, calls, elapsed, dest, pure>>

\* The handler's catch block, entered from forwardRequest's rethrow.
ForwardFailed(r, message) ==
  /\ timer' = [timer EXCEPT ![r] = FALSE]
  /\ pc' = [pc EXCEPT ![r] = "done"]
  /\ responses' = [responses EXCEPT ![r] = Append(@, BadGatewayResponse)]
  /\ outcome' = [outcome EXCEPT ![r] = "BAD_GATEWAY"]
  /\ errors' = [errors EXCEPT ![r] = message]
  /\ UNCHANGED <<mapping, running, wire, resolved, calls, elapsed, dest, pure>>

\* The connection fails (refused, reset, DNS, TLS): fetch or the body read
\* rejects with an error that is not an AbortError.
NetworkFails(r) ==
  /\ running /\ InFlight(r)
  /\ ForwardFailed(r, NetworkMessage)

\* The abort timer fires: controller.abort(), the pending await rejects with
\* an AbortError.
TimerFires(r) ==
  /\ running /\ InFlight(r)
  /\ timer[r] /\ elapsed[r] >= FORWARD_TIMEOUT_MS
  /\ ForwardFailed(r, TimeoutMessage)

\* One millisecond passes; a timer that is due fires before the next one.
Tick ==
  /\ running
  /\ \E r \in Reqs : InFlight(r)
  /\ \A r \in Reqs : InFlight(r) =>
       /\ elapsed[r] < MaxWait
       /\ timer[r] => elapsed[r] < FORWARD_TIMEOUT_MS
  /\ elapsed' = [r \in Reqs |-> IF InFlight(r) THEN elapsed[r] + 1 ELSE elapsed[r]]
  /\ UNCHANGED <<mapping, running, wire, pc, resolved, calls, timer, dest,
                 responses, outcome, errors, pure>>

\* What resolveDownstream gives the handler: its result, or nothing when it
\* threw.
ResolutionOf(table, w) ==
  LET res == resolveDownstream(table, Incoming(w), w.platform) IN
  IF res.threw THEN NoResolution ELSE res.v

\* A reload that resolves the requests in flight again under the new table.
ReloadReResolving ==
  /\ running
  /\ \E table \in Tables :
       /\ mapping' = table
       /\ resolved' = [r \in Reqs |->
            IF InFlight(r) THEN ResolutionOf(table, wire[r]) ELSE resolved[r]]
  /\ UNCHANGED <<running, wire, pc, calls, timer, elapsed, dest,
                 responses, outcome, errors, pure>>

\* SIGHUP: loadMapping() reads and parses the file again.
Reload ==
  /\ running
  /\ \E table \in Tables : mapping' = table
  /\ UNCHANGED <<running, wire, pc, resolved, calls, timer, elapsed, dest,
                 responses, outcome, errors, pure>>

\* SIGHUP with a file that cannot be read or parsed: process.exit(1).
ReloadFails ==
  /\ running
  /\ running' = FALSE
  /\ UNCHANGED <<mapping, wire, pc, resolved, calls, timer, elapsed, dest,
                 responses, outcome, errors, pure>>

\* One request through the relay, over the whole input space.
Next ==
  \/ Receive(1, Requests)
  \/ Handle(1)
  \/ FetchResolves(1, DestStatuses, DestHeaders)
  \/ BodyResolves(1, DestBodies)
  \/ NetworkFails(1)
  \/ TimerFires(1)
  \/ Tick
  \/ Reload
  \/ ReloadFails

Spec == Init /\ [][Next]_vars

\* The same, with what the runtime guarantees: a handler that was entered
\* runs, time passes, and a timer that is armed and due fires.  Nothing is
\* assumed of the destination, the network or the operator.
\* Handle(1) is enabled exactly when the process runs and the request is
\* "received", and taking it leaves "received": its weak fairness is that
\* this condition does not hold forever.
SpecLive ==
  /\ Init /\ [][Next]_vars
  /\ []<>~(running /\ pc[1] = "received")
  /\ WF_vars(Tick)
  /\ WF_vars(TimerFires(1))

\* Several requests in flight at once, on a reduced input space.
FewRequests ==
  {w \in Requests :
     /\ w.platform = "messenger" /\ w.method = "POST"
     /\ w.headers = HeadersJson
     /\ w.body \in {BodyId123, BodyEntryNull}
     /\ w.query = <<>>}

FewTables == {TableOne, TableEmpty}
FewDestHeaders == {h \in DestHeaders : Len(h) = 3}

ConcurrentInit == (\E table \in FewTables : RelayIdle(table)) /\ PureIdle

ReloadFew ==
  /\ running
  /\ \E table \in FewTables : mapping' = table
  /\ UNCHANGED <<running, wire, pc, resolved, calls, timer, elapsed, dest,
                 responses, outcome, errors, pure>>

ConcurrentNext ==
  \/ \E r \in Reqs :
       \/ Receive(r, FewRequests)
       \/ Handle(r)
       \/ FetchResolves(r, {200}, FewDestHeaders)
       \/ BodyResolves(r, {"{\"ok\":true}"})
       \/ NetworkFails(r)
       \/ TimerFires(r)
  \/ Tick
  \/ ReloadFew
  \/ ReloadFails

SpecConcurrent == ConcurrentInit /\ [][ConcurrentNext]_vars

(***************************************************************************)
(* Pure checks: the resolver, the header sanitizer and the identifier      *)
(* extractor applied to inputs drawn from bounded sets.                    *)
(***************************************************************************)
\* Sequences over S of length at most n.
SeqsUpTo(S, n) == UNION {[1..k -> S] : k \in 0..n}

\* --- resolveDownstream -------------------------------------------------
MapKeys == {"123", "456", "default"}
MapUrls == {"http://d/x", "http://f/y"}
SubMaps == UNION {[K -> MapUrls] : K \in SUBSET MapKeys}
ResolveTables ==
  {JObj(<<>>), JObj("messenger" :> JStr("off"))}
  \cup {JObj("messenger" :> SubMap(f)) : f \in SubMaps}

ResolveBodies ==
  {JNull, EntryBody(JStr("123")), EntryBody(JStr("constructor")),
   JObj("entry" :> JArr(<<JNull>>))}

QueryKeys == {"id", "page_id", "ig_id"}
QueryValues == {"123", "456", "constructor"}
ResolveQueries == SeqsUpTo(QueryKeys \X QueryValues, MaxQueryLen)

ResolveInit ==
  /\ arg \in [table : ResolveTables, platform : Platforms,
              parsedBody : ResolveBodies, query : ResolveQueries]
  /\ ret = <<>>
  /\ fn = "none"
  /\ RelayIdle(arg.table)

\* The request resolveDownstream reads: req.parsedBody and req.query.
ResolveRequest(a) ==
  [parsedBody |-> a.parsedBody, query |-> QueryObject(a.query, <<>>)]

ApplyResolve ==
  /\ fn = "none"
  /\ fn' = "resolveDownstream"
  /\ ret' = resolveDownstream(arg.table, ResolveRequest(arg), arg.platform)
  /\ UNCHANGED <<arg, relay>>

SpecResolve == ResolveInit /\ [][ApplyResolve]_vars

\* --- header sanitization -----------------------------------------------
HeaderNames ==
  {"Connection", "CONNECTION", "host", "X-Custom", "x-custom", "Set-Cookie",
   "accept"}
HeaderValues == {"a", "b"}
WireHeaders == SeqsUpTo(HeaderNames \X HeaderValues, MaxHeaders)

HeadersInit ==
  /\ arg \in WireHeaders
  /\ ret = <<>>
  /\ fn = "none"
  /\ \E table \in {TableOne} : RelayIdle(table)

\* The inbound headers, as the runtime hands them over, sanitized.
ApplySanitizeIncoming ==
  /\ fn = "none"
  /\ fn' = "sanitizeIncomingHeaders"
  /\ ret' = sanitizeIncomingHeaders(NodeIncomingHeaders(arg, <<>>))
  /\ UNCHANGED <<arg, relay>>

\* The destination's response headers, as fetch hands them over, filtered.
ApplyFilterHeaders ==
  /\ fn = "none"
  /\ fn' = "filterHeaders"
  /\ ret' = filterHeaders(FetchHeadersEntries(arg, 1))
  /\ UNCHANGED <<arg, relay>>

HeadersNext == ApplySanitizeIncoming \/ ApplyFilterHeaders

SpecHeaders == HeadersInit /\ [][HeadersNext]_vars

\* --- extractId ----------------------------------------------------------
\* Maximal length of "entry" in the bodies tried.
MaxEntries == 2

IdValues ==
  {JStr("123"), JStr(""), JNum(123), JNum(0), JNull, JBool(TRUE), JBool(FALSE)}
EntryElements ==
  {JNull, JStr("x"), JNum(7), EmptyObj, JObj("time" :> JNum(1))}
  \cup {JObj("id" :> x) : x \in IdValues}
  \cup {JObj("id" :> x @@ "time" :> JNum(1)) : x \in IdValues}
EntryValues ==
  {JNull, JStr("x"), EmptyObj} \cup {JArr(a) : a \in SeqsUpTo(EntryElements, MaxEntries)}
ParsedBodies ==
  {Undefined, JNull, JNum(5), JStr("entry"), EmptyObj, JArr(<<>>),
   JObj("object" :> JStr("page"))}
  \cup {JObj("entry" :> e) : e \in EntryValues}

ExtractInit ==
  /\ arg \in ParsedBodies
  /\ ret = <<>>
  /\ fn = "none"
  /\ \E table \in {TableOne} : RelayIdle(table)

ApplyExtractId ==
  /\ fn = "none"
  /\ fn' = "extractId"
  /\ ret' = extractId(arg)
  /\ UNCHANGED <<arg, relay>>

SpecExtract == ExtractInit /\ [][ApplyExtractId]_vars

\* --- forwardRequest: the outbound call it builds ------------------------
ForwardMethods ==
  {"GET", "get", "Get", "HEAD", "head", "Head", "POST", "post", "PUT",
   "DELETE"}
ForwardBodies == {"", BodyId123, BodyBinary}
ForwardRelayIds == {Undefined, JStr("123"), JStr("default")}

ForwardInit ==
  /\ arg \in [method : ForwardMethods, rawBody : ForwardBodies,
              incomingHeaders : RequestHeaders, relayId : ForwardRelayIds]
  /\ ret = <<>>
  /\ fn = "none"
  /\ \E table \in {TableOne} : RelayIdle(table)

ApplyForwardRequest ==
  /\ fn = "none"
  /\ fn' = "forwardRequest"
  /\ ret' = IssuedCalls(OutboundCall("http://d/x", arg.method, arg.rawBody,
                          NodeIncomingHeaders(arg.incomingHeaders, <<>>),
                          arg.relayId))
  /\ UNCHANGED <<arg, relay>>

SpecForward == ForwardInit /\ [][ApplyForwardRequest]_vars

(***************************************************************************)
(* Properties                                                              *)
(***************************************************************************)
\* C1: once the outbound call of a request has started, the caller gets its
\* response no later than the configured timeout: no request is still
\* waiting for the destination (for its headers or for the rest of its
\* body) after more than FORWARD_TIMEOUT_MS.
C1_CallerNeverWaitsPastTimeout ==
  \A r \in Reqs : InFlight(r) => elapsed[r] <= FORWARD_TIMEOUT_MS

\* The sub-mapping T[P] of a resolver input, and whether it is a mapping.
PlatformMapOf(a) == Get(a.table, a.platform)
IsMapping(v) == v.t = "object"

\* The first element of C that is a key of the sub-mapping.
FirstKey(platformMap, C) ==
  C[CHOOSE i \in DOMAIN C :
      /\ C[i] \in OwnKeys(platformMap)
      /\ \A k \in 1..(i - 1) : C[k] \notin OwnKeys(platformMap)]

Resolved(platformMap, key) ==
  Return([key |-> JStr(key), url |-> platformMap.o[key]])

\* C2: when some candidate is a key of T[P], resolveDownstream returns the
\* first such candidate, in candidate order, with T[P][candidate], whether
\* or not T[P] has a "default" entry.
C2_FirstMatchingCandidateWins ==
  LET platformMap == PlatformMapOf(arg)
      C == Candidates(ResolveRequest(arg)) IN
  (/\ fn = "resolveDownstream"
   /\ IsMapping(platformMap)
   /\ ~C.threw
   /\ \E i \in DOMAIN C.v : C.v[i] \in OwnKeys(platformMap))
  => ret = Resolved(platformMap, FirstKey(platformMap, C.v))

\* All values of one query field, in order.
RECURSIVE FieldValues(_, _)
FieldValues(pairs, field) ==
  IF pairs = <<>> THEN <<>>
  ELSE (IF Head(pairs)[1] = field THEN <<Head(pairs)[2]>> ELSE <<>>)
       \o FieldValues(Tail(pairs), field)

\* The candidate list of the specification: the body identifier, then all
\* values of "id", then of "page_id", then of "ig_id".
AllFieldCandidates(a) ==
  BodyCandidates(a.parsedBody).v
  \o FieldValues(a.query, "id") \o FieldValues(a.query, "page_id")
  \o FieldValues(a.query, "ig_id")

\* C3: the candidate list handed to the lookup is the body identifier (when
\* present) followed by all values of "id", then all values of "page_id",
\* then all values of "ig_id" (so ?id=A&page_id=B with only B mapped
\* resolves to B).
C3_AllQueryFieldsAreCandidates ==
  (/\ fn = "resolveDownstream"
   /\ IsMapping(PlatformMapOf(arg))
   /\ ~BodyCandidates(arg.parsedBody).threw)
  => /\ Candidates(ResolveRequest(arg)) = Return(AllFieldCandidates(arg))
     /\ ret = Return(Lookup(PlatformMapOf(arg), AllFieldCandidates(arg)))

\* C4: when no candidate is a key of T[P] and T[P] has the entry "default",
\* resolution returns the key "default" with T[P]["default"], for an empty
\* and for a non-empty candidate list.
C4_FallbackWhenNoCandidateMatches ==
  LET platformMap == PlatformMapOf(arg)
      C == Candidates(ResolveRequest(arg)) IN
  (/\ fn = "resolveDownstream"
   /\ IsMapping(platformMap)
   /\ ~C.threw
   /\ \A i \in DOMAIN C.v : C.v[i] \notin OwnKeys(platformMap)
   /\ "default" \in OwnKeys(platformMap))
  => ret = Resolved(platformMap, "default")

\* Resolution fails, in the terms of the specification: the platform is
\* absent or not a mapping, or no candidate is a key of its sub-mapping and
\* the sub-mapping has no "default" entry.
ResolutionFails(table, request) ==
  LET platformMap == Get(table, request.platform)
      C == Candidates(request) IN
  \/ ~IsMapping(platformMap)
  \/ /\ ~C.threw
     /\ \A i \in DOMAIN C.v : C.v[i] \notin OwnKeys(platformMap)
     /\ "default" \notin OwnKeys(platformMap)

\* The first candidate of a request, or null when there is none.
FirstCandidate(request) ==
  LET C == Candidates(request) IN
  IF C.threw \/ C.v = <<>> THEN JNull ELSE JStr(C.v[1])

\* The handler step of request r.
HandlerStep(r) == pc[r] = "received" /\ pc'[r] # "received"

\* C5: whenever resolution fails, the request ends in NOT_FOUND: the caller
\* gets 404 with {"error": message} naming the first candidate (or the
\* placeholder), and no outbound call is made.
C5_ResolutionFailureIs404 ==
  [][\A r \in Reqs :
       (HandlerStep(r) /\ ResolutionFails(mapping, Incoming(wire[r])))
       => /\ outcome'[r] = "NOT_FOUND"
          /\ responses'[r] = <<NotFoundResponse(FirstCandidate(Incoming(wire[r])))>>
          /\ calls'[r] = <<>>]_vars

HandlerRan(r) == pc[r] \notin {"idle", "received"}

\* Resolution succeeded for request r: it returned a configured destination.
ResolutionSucceeded(r) ==
  HandlerRan(r) /\ resolved[r].url.t = "string" /\ resolved[r].url.s # ""

CallCanBeBuilt(r) ==
  /\ Truthy(resolved[r].url)
  /\ URLParse(JsString(resolved[r].url)).valid
  /\ wire[r].method \notin ForbiddenMethods

NotHopByHop(entry) == toLowerCase(entry[1]) \notin HOP_BY_HOP_HEADERS

\* C9: sanitizing a header set (the inbound headers, the destination's
\* response headers) yields exactly its entries whose name is not
\* denylisted, with their casing, order and multiplicity.
C9_SanitizedIsInputMinusDenylist ==
  fn \in {"sanitizeIncomingHeaders", "filterHeaders"}
  => ret = SelectSeq(arg, NotHopByHop)

\* What the specification has the Identifier Extractor return.
ExpectedId(body) ==
  IF /\ body.t = "object" /\ "entry" \in OwnKeys(body)
     /\ body.o["entry"].t = "array" /\ Len(body.o["entry"].a) > 0
     /\ body.o["entry"].a[1].t = "object"
     /\ "id" \in OwnKeys(body.o["entry"].a[1])
  THEN JStr(JsString(body.o["entry"].a[1].o["id"]))
  ELSE JNull

\* C10: extractId returns String(X) when entry[0] has a field id of value
\* X, for every X, and null for every other input.
C10_ExtractIdReturnsStringOrNull ==
  fn = "extractId" => ret = Return(ExpectedId(arg))

\* C11: when the method is GET or HEAD, in any letter case, the outbound
\* call carries no body even though the caller sent body bytes; for every
\* other method the call carries a body, the raw bytes given.
C11_BodyOnlyWhenNotGetOrHead ==
  fn = "forwardRequest" =>
    \A i \in DOMAIN ret :
      IF arg.method \in {"GET", "get", "Get", "HEAD", "head", "Head"}
      THEN ret[i].body = <<>>
      ELSE ret[i].body = <<arg.rawBody>>

C11_Witness ==
  /\ fn = "forwardRequest" /\ Len(ret) = 1
  /\ arg.method = "head" /\ arg.rawBody = BodyId123 /\ ret[1].body = <<>>

\* C12: the 502 response does not depend on the cause of the failure: any
\* two requests that ended in BAD_GATEWAY, whatever failed for each, got
\* the same single response, with status 502 and the fixed generic body,
\* which carries nothing of the error logged for the request.
GenericBadGatewayBody ==
  "{\"error\":\"Failed to forward webhook to downstream server\"}"

C12_BadGatewayHidesCause ==
  \A r1 \in Reqs, r2 \in Reqs :
    (outcome[r1] = "BAD_GATEWAY" /\ outcome[r2] = "BAD_GATEWAY") =>
      /\ responses[r1] = responses[r2]
      /\ Len(responses[r1]) = 1
      /\ responses[r1][1].status = 502
      /\ responses[r1][1].body = GenericBadGatewayBody

C12_Witness ==
  \E r1 \in Reqs, r2 \in Reqs :
    /\ outcome[r1] = "BAD_GATEWAY" /\ errors[r1] = TimeoutMessage
    /\ outcome[r2] = "BAD_GATEWAY" /\ errors[r2] = NetworkMessage
    /\ calls[r1] # <<>> /\ calls[r2] # <<>>

\* The parsed body has the shape of a webhook payload: an object whose
\* "entry" is a non-empty array with an object as first element.
HasPayloadShape(parsed) ==
  /\ parsed.t = "object" /\ "entry" \in OwnKeys(parsed)
  /\ parsed.o["entry"].t = "array" /\ Len(parsed.o["entry"].a) > 0
  /\ parsed.o["entry"].a[1].t = "object"

\* The request as the handler would see it had the body carried no
\* identifier at all.
WithoutBodyIdentifier(request) == [request EXCEPT !.parsedBody = JNull]

\* C13: a body that cannot be parsed, or that parses to a value of another
\* shape than the webhook payload, counts as "no identifier present": the
\* handler resolves, answers and calls exactly as it would have done with
\* no body identifier, and never fails the request because of the body.
C13_MalformedBodyIsNoIdentifier ==
  [][\A r \in Reqs :
       (HandlerStep(r) /\ ~HasPayloadShape(Incoming(wire[r]).parsedBody))
       => LET h == HandlerSync(mapping,
                               WithoutBodyIdentifier(Incoming(wire[r]))) IN
          /\ outcome'[r] = h.outcome
          /\ resolved'[r] = h.resolution
          /\ responses'[r] = h.response
          /\ calls'[r] = h.call]_vars

\* C14: a reload interleaved with request handling is atomic for each
\* lookup: the resolution of a request is the one a single version of the
\* table gives (the old one or the new one, whole); resolving never changes
\* the table; and a reload, or any other step taken while a request is in
\* FORWARDING, changes neither the destination the request calls nor the
\* routing key resolved for it.
C14_ReloadIsAtomicForLookups ==
  [][\A r \in Reqs :
       /\ HandlerStep(r) =>
            /\ mapping' = mapping
            /\ \E table \in {mapping, mapping'} :
                 resolved'[r] = ResolutionOf(table, wire[r])
       /\ mapping' # mapping =>
            (resolved'[r] = resolved[r] /\ calls'[r] = calls[r])
       /\ InFlight(r) =>
            (resolved'[r] = resolved[r] /\ calls'[r] = calls[r])]_vars

\* A request in FORWARDING whose table was replaced after its lookup by one
\* that would route it elsewhere.
C14_Witness ==
  \E r \in Reqs :
    /\ InFlight(r) /\ Len(calls[r]) = 1
    /\ ResolutionOf(mapping, wire[r]) # resolved[r]

\* The steps of request r are in order and it has at most one response:
\* nothing is called before resolution, a response is written exactly when
\* the request reaches a terminal outcome, and never a second one.
StepsInOrder(r) ==
  /\ Len(responses[r]) <= 1
  /\ (pc[r] = "done") <=> (Len(responses[r]) = 1)
  /\ (pc[r] = "done") <=> (outcome[r] \in {"NOT_FOUND", "BAD_GATEWAY", "MIRRORED"})
  /\ pc[r] \in {"idle", "received"} => calls[r] = <<>>
  /\ InFlight(r) => (Len(calls[r]) = 1 /\ Truthy(resolved[r].url))
  /\ outcome[r] = "MIRRORED" => (Len(calls[r]) = 1 /\ dest[r].complete)

\* C15: every inbound request ends in exactly one of NOT_FOUND, BAD_GATEWAY
\* and MIRRORED with exactly one response, its steps in order (resolution,
\* then the outbound call, then the response); no request is left without
\* a response and none gets a second one.
C15_EveryRequestEndsWithOneResponse ==
  /\ [](\A r \in Reqs : StepsInOrder(r))
  /\ \A r \in Reqs : (pc[r] = "received") ~> (pc[r] = "done")

\* Everything the relay holds for request r.
RequestState(r) ==
  <<wire[r], pc[r], resolved[r], calls[r], timer[r], dest[r], responses[r],
    outcome[r], errors[r]>>

\* Request r ends in this step with NOT_FOUND or BAD_GATEWAY.
FailsNow(r) ==
  /\ outcome[r] = "none"
  /\ outcome'[r] \in {"NOT_FOUND", "BAD_GATEWAY"}

\* C16: no event after a successful startup terminates the process, a
\* reload attempted while requests are in flight included, and a request
\* that fails (404 or 502, timeouts included) leaves every other request
\* as it was.
C16_NothingKillsProcessOrOtherRequests ==
  [][/\ running => running'
     /\ \A r \in Reqs, q \in Reqs :
          (FailsNow(r) /\ q # r) => RequestState(q)' = RequestState(q)]_vars

\* C17: a request reaches BAD_GATEWAY only from FORWARDING: whenever the
\* caller got 502, an outbound call to the resolved destination had been
\* started and then failed by timeout or network failure; nothing that
\* fails before the call (extracting the identifier, resolving, building
\* the destination URL) ends in 502.
C17_BadGatewayOnlyAfterCallFailed ==
  \A r \in Reqs :
    outcome[r] = "BAD_GATEWAY" =>
      /\ Len(calls[r]) = 1
      /\ Truthy(resolved[r].url)
      /\ errors[r] \in {TimeoutMessage, NetworkMessage}

\* The values the header list carries under a name, in any letter case.
HeaderValuesOf(headers, name) ==
  [j \in {i \in DOMAIN headers : toLowerCase(headers[i][1]) = name}
     |-> headers[j][2]]

\* C18: on every outbound call the header x-relay-key is present exactly
\* once, and its value is the routing key resolved for the request; what
\* the caller sent under that name does not reach the destination.
C18_RelayKeyHeaderIsResolvedKey ==
  \A r \in Reqs : \A i \in DOMAIN calls[r] :
    LET sent == HeaderValuesOf(calls[r][i].headers, "x-relay-key") IN
    /\ Cardinality(DOMAIN sent) = 1
    /\ resolved[r].key.t = "string"
    /\ \A j \in DOMAIN sent : sent[j] = resolved[r].key.s

C18_Witness ==
  \E r \in Reqs :
    /\ Len(calls[r]) = 1
    /\ wire[r].headers = HeadersSpoof
    /\ resolved[r].key = JStr("default")
    /\ HeaderValuesOf(calls[r][1].headers, "x-relay-key") # <<>>

\* name=value&name=value... of the parameters as they came on the wire.
RECURSIVE WireQueryString(_)
WireQueryString(pairs) ==
  IF pairs = <<>> THEN ""
  ELSE pairs[1][1] \o "=" \o pairs[1][2]
       \o (IF Len(pairs) > 1 THEN "&" ELSE "")
       \o WireQueryString(Tail(pairs))

\* The configured URL already carries query parameters.
HasOwnQuery(url) == url = "http://f/y?src=relay"

\* The configured URL followed by the parameters of the inbound request.
UrlWithQuery(url, pairs) ==
  IF pairs = <<>> THEN url
  ELSE url \o (IF HasOwnQuery(url) THEN "&" ELSE "?") \o WireQueryString(pairs)

\* C19: the URL of the outbound call is the resolved destination URL with
\* every query parameter of the inbound request appended, each value of a
\* repeated parameter as its own parameter in the original order, the
\* parameters the configured URL already has kept in front.
C19_CallUrlIsResolvedUrlPlusQuery ==
  \A r \in Reqs : \A i \in DOMAIN calls[r] :
    /\ resolved[r].url.t = "string"
    /\ calls[r][i].url = UrlWithQuery(resolved[r].url.s, wire[r].query)

\* GET ?id=123&test=1 with {"messenger":{"123":"http://d/x"}} calls
\* http://d/x?id=123&test=1.
C19_Witness ==
  \E r \in Reqs :
    /\ Len(calls[r]) = 1
    /\ wire[r].method = "GET"
    /\ wire[r].query = << <<"id", "123">>, <<"test", "1">> >>
    /\ resolved[r].url = JStr("http://d/x")
    /\ calls[r][1].url = "http://d/x?id=123&test=1"

\* C20: resolution only returns what the operator configured: whenever
\* resolveDownstream returns a URL, the platform has a sub-mapping, the key
\* returned is an entry of it (a candidate, or "default"), and the URL
\* returned is the string configured for that key.  A name that every
\* object inherits is no entry and gives no destination.
C20_ResolvesOnlyConfiguredEntries ==
  (fn = "resolveDownstream" /\ ~ret.threw /\ Truthy(ret.v.url)) =>
    LET platformMap == PlatformMapOf(arg) IN
    /\ IsMapping(platformMap)
    /\ ret.v.key.t = "string"
    /\ ret.v.key.s \in OwnKeys(platformMap)
    /\ ret.v.url = platformMap.o[ret.v.key.s]
    /\ ret.v.url.t = "string"

====
